---- MODULE Spec2Model ----
(***************************************************************************)
(* A model of timetxt (src/src/lib.rs): parse_time, find_duration and the  *)
(* Display implementations of Time and TimeEntry.                          *)
(*                                                                         *)
(* A string is the sequence of its chars, a char being its Unicode scalar  *)
(* value.  The code indexes a line in two ways: chars().enumerate() counts *)
(* chars, while len() and the slices &line[a..b] count the bytes of the    *)
(* UTF-8 encoding, and a slice that does not start and end between two     *)
(* chars panics.  Indices named as in the code (i, index,                  *)
(* start_time_space, end_time_space) are 0-based; s[i + 1] is the char at  *)
(* the code's char index i.                                                *)
(***************************************************************************)
EXTENDS Integers, Sequences, FiniteSets, TLC

VARIABLES
    contents,   \* parse_time's argument, the whole text
    rest,       \* the part of it that contents.lines() has not read yet
    pc,         \* "loop" | "done" | "displayed" | "panicked"
    pos,        \* number of lines taken from contents.lines() so far
    date,       \* the local `date: Option<NaiveDate>`
    entries,    \* the local `t.entries`: HashMap<NaiveDate, Vec<TimeEntry>>
    result,     \* what parse_time returned
    output,     \* what format!("{}", t) produced
    fdLine,     \* find_duration's argument, when it is called on its own
    fdResult    \* find_duration's result, when it is called on its own

vars == <<contents, rest, pc, pos, date, entries, result, output, fdLine, fdResult>>

----------------------------------------------------------------------------
(* Option<T>, chars and strings *)

None == [some |-> FALSE]
Some(x) == [some |-> TRUE, val |-> x]

\* The ASCII characters U+0020 to U+005F and U+0061 to U+007E, in order
AsciiLow ==
    <<" ", "!", "\"", "#", "$", "%", "&", "'", "(", ")", "*", "+",
      ",", "-", ".", "/", "0", "1", "2", "3", "4", "5", "6", "7",
      "8", "9", ":", ";", "<", "=", ">", "?", "@", "A", "B", "C",
      "D", "E", "F", "G", "H", "I", "J", "K", "L", "M", "N", "O",
      "P", "Q", "R", "S", "T", "U", "V", "W", "X", "Y", "Z", "[",
      "\\", "]", "^", "_">>
AsciiHigh ==
    <<"a", "b", "c", "d", "e", "f", "g", "h", "i", "j", "k", "l",
      "m", "n", "o", "p", "q", "r", "s", "t", "u", "v", "w", "x",
      "y", "z", "{", "|", "}", "~">>

\* The scalar value of an ASCII character
Chr(c) ==
    CASE c = "\t" -> 9
      [] c = "\n" -> 10
      [] c = "\f" -> 12
      [] c = "\r" -> 13
      [] \E n \in 1..Len(AsciiLow) : AsciiLow[n] = c ->
             31 + CHOOSE n \in 1..Len(AsciiLow) : AsciiLow[n] = c
      [] OTHER -> 96 + CHOOSE n \in 1..Len(AsciiHigh) : AsciiHigh[n] = c

\* The string made of these ASCII characters
Str(s) == [k \in 1..Len(s) |-> Chr(s[k])]

Space == Chr(" ")
Colon == Chr(":")
Hyphen == Chr("-")
PlusSign == Chr("+")
Slash == Chr("/")
Zero == Chr("0")
Newline == Chr("\n")
CarriageReturn == Chr("\r")

\* char::is_ascii_digit, char::to_digit
IsDigit(c) == c >= Zero /\ c <= Zero + 9
DigitVal(c) == c - Zero

\* char::is_whitespace: the code points with the property White_Space
IsWhitespace(c) ==
    \/ c \in 9..13
    \/ c \in {32, 133, 160, 5760, 8232, 8233, 8239, 8287, 12288}
    \/ c \in 8192..8202

\* char::len_utf8
Utf8Len(c) ==
    IF c < 128 THEN 1 ELSE IF c < 2048 THEN 2 ELSE IF c < 65536 THEN 3 ELSE 4

\* str::len: the length in bytes
RECURSIVE ByteLen(_)
ByteLen(s) == IF s = <<>> THEN 0 ELSE Utf8Len(Head(s)) + ByteLen(Tail(s))

\* The number of chars of s in its first k chars and the b bytes after them,
\* -1 when those b bytes end inside a char or beyond the end of s
RECURSIVE CharsBefore(_, _, _)
CharsBefore(s, b, k) ==
    IF b = 0 THEN k
    ELSE IF k >= Len(s) \/ b < Utf8Len(s[k + 1]) THEN -1
    ELSE CharsBefore(s, b - Utf8Len(s[k + 1]), k + 1)

\* str::is_char_boundary
IsCharBoundary(s, b) == CharsBefore(s, b, 0) >= 0

\* &s[from..to] panics: the range is not in order, or an end of it is beyond
\* the end of s or inside a char
SlicePanics(s, from, to) ==
    from > to \/ ~IsCharBoundary(s, from) \/ ~IsCharBoundary(s, to)

\* &s[from..to], byte offsets, `to` exclusive, when it does not panic
Slice(s, from, to) == SubSeq(s, CharsBefore(s, from, 0) + 1, CharsBefore(s, to, 0))

RECURSIVE TrimStart(_)
TrimStart(s) ==
    IF s # <<>> /\ IsWhitespace(Head(s)) THEN TrimStart(Tail(s)) ELSE s

RECURSIVE TrimEnd(_)
TrimEnd(s) ==
    IF s # <<>> /\ IsWhitespace(s[Len(s)])
    THEN TrimEnd(SubSeq(s, 1, Len(s) - 1))
    ELSE s

\* str::trim
Trim(s) == TrimEnd(TrimStart(s))

StartsWith(s, p) == Len(s) >= Len(p) /\ SubSeq(s, 1, Len(p)) = p

----------------------------------------------------------------------------
(* chrono's parser for the two format strings the program uses.            *)
(* A numeric item skips leading whitespace, then takes between 1 and       *)
(* `max` ASCII digits; a literal must match; input left over is an error.  *)

RECURSIVE CountDigits(_, _)
CountDigits(s, max) ==
    IF s = <<>> \/ max = 0 \/ ~IsDigit(Head(s))
    THEN 0
    ELSE 1 + CountDigits(Tail(s), max - 1)

RECURSIVE DecimalValue(_, _)
DecimalValue(s, acc) ==
    IF s = <<>> THEN acc ELSE DecimalValue(Tail(s), acc * 10 + DigitVal(Head(s)))

\* The parser's state: the input left and the fields parsed so far
ParseStart(s) == [ok |-> TRUE, rest |-> s, vals |-> <<>>]
ParseFailed == [ok |-> FALSE, rest |-> <<>>, vals |-> <<>>]

\* The first n characters of s are digits: take them as a field
TakeDigits(s, vals, n, sign) ==
    IF n = 0 THEN ParseFailed
    ELSE [ok |-> TRUE, rest |-> SubSeq(s, n + 1, Len(s)),
          vals |-> Append(vals, sign * DecimalValue(SubSeq(s, 1, n), 0))]

\* scan::number(s, 1, max); a signed item (%Y) with an explicit sign takes
\* any number of digits
ScanNumber(s, vals, max, signed) ==
    IF signed /\ s # <<>> /\ Head(s) = Hyphen
    THEN TakeDigits(Tail(s), vals, CountDigits(Tail(s), Len(s)), -1)
    ELSE IF signed /\ s # <<>> /\ Head(s) = PlusSign
    THEN TakeDigits(Tail(s), vals, CountDigits(Tail(s), Len(s)), 1)
    ELSE TakeDigits(s, vals, CountDigits(s, max), 1)

\* Item::Numeric
Numeric(st, max, signed) ==
    IF st.ok THEN ScanNumber(TrimStart(st.rest), st.vals, max, signed) ELSE st

\* Item::Literal
Literal(st, c) ==
    IF st.ok /\ st.rest # <<>> /\ Head(st.rest) = c
    THEN [st EXCEPT !.rest = Tail(@)]
    ELSE ParseFailed

\* Parsed::to_naive_time, after the check that no input is left
ToNaiveTime(st) ==
    IF st.ok /\ st.rest = <<>> /\ st.vals[1] <= 23 /\ st.vals[2] <= 59
    THEN [ok |-> TRUE, val |-> [hour |-> st.vals[1], minute |-> st.vals[2]]]
    ELSE [ok |-> FALSE]

\* NaiveTime::parse_from_str(s, "%H:%M"): Ok(time) or Err(chrono::ParseError)
NaiveTimeParse(s) ==
    ToNaiveTime(Numeric(Literal(Numeric(ParseStart(s), 2, FALSE), Colon), 2, FALSE))

IsLeapYear(y) == y % 4 = 0 /\ (y % 100 # 0 \/ y % 400 = 0)

DaysInMonth(y, m) ==
    IF m = 2 THEN (IF IsLeapYear(y) THEN 29 ELSE 28)
    ELSE IF m \in {4, 6, 9, 11} THEN 30 ELSE 31

\* The years of NaiveDate::MIN and NaiveDate::MAX (chrono 0.4.32 and later;
\* earlier releases reach one year further at each end)
MinYear == -262143
MaxYear == 262142

\* Parsed::to_naive_date, after the check that no input is left
ToNaiveDate(st) ==
    IF /\ st.ok
       /\ st.rest = <<>>
       /\ st.vals[1] >= MinYear /\ st.vals[1] <= MaxYear
       /\ st.vals[2] >= 1 /\ st.vals[2] <= 12
       /\ st.vals[3] >= 1 /\ st.vals[3] <= DaysInMonth(st.vals[1], st.vals[2])
    THEN Some([year |-> st.vals[1], month |-> st.vals[2], day |-> st.vals[3]])
    ELSE None

\* NaiveDate::parse_from_str(s, "%Y-%m-%d").ok()
NaiveDateParse(s) ==
    ToNaiveDate(Numeric(Literal(Numeric(Literal(Numeric(ParseStart(s), 4, TRUE),
                                                Hyphen), 2, FALSE), Hyphen), 2, FALSE))

----------------------------------------------------------------------------
(* chrono's formatting *)

RECURSIVE Decimal(_)
Decimal(n) ==
    IF n < 10 THEN <<Zero + n>>
    ELSE Decimal(n \div 10) \o <<Zero + (n % 10)>>

RECURSIVE ZeroPad(_, _)
ZeroPad(s, width) == IF Len(s) >= width THEN s ELSE ZeroPad(<<Zero>> \o s, width)

\* No padding
TwoDigitsUnpadded(n) == Decimal(n)

\* %H, %M, %m, %d
TwoDigits(n) == ZeroPad(Decimal(n), 2)

\* %Y: four digits for 0..9999, else a sign and at least four digits
FormatYear(y) ==
    IF y \in 0..9999 THEN ZeroPad(Decimal(y), 4)
    ELSE IF y < 0 THEN <<Hyphen>> \o ZeroPad(Decimal(0 - y), 4)
    ELSE <<PlusSign>> \o ZeroPad(Decimal(y), 4)

\* date.format("%Y-%m-%d")
FormatDate(d) ==
    FormatYear(d.year) \o <<Hyphen>> \o TwoDigits(d.month) \o <<Hyphen>> \o TwoDigits(d.day)

\* time.format("%H:%M")
FormatTime(t) == TwoDigits(t.hour) \o <<Colon>> \o TwoDigits(t.minute)

----------------------------------------------------------------------------
(* find_duration *)

MinStartSpace == 4     \* `if i < 4`: H:MM
\* `if i < 8`: an end-time threshold one too small
MinEndSpaceTooSmall == 9 - 1

MinEndSpace == 9       \* `if i < 9`: H:MM H:MM
MaxScanIndex == 11     \* `i > 11`
MinLineLen == 9        \* `line.len() < 9`

StartNotFound == "Start time not found"
EndNotFound == "End time not found"
NeitherFound == "Neither start or end time not found"

TimeNotFound(msg) == [kind |-> "TimeNotFound", msg |-> msg]
\* TimeError::ParseError(err), through From<chrono::ParseError>
ChronoParseError == [kind |-> "ParseError"]
\* The panic of a slice that is out of range or cuts a char
SlicePanic == [kind |-> "Panic"]

\* How find_duration ends: Ok((index, duration)), Err(e), or a panic
Found(index, st, et) ==
    [ok |-> TRUE, index |-> index, duration |-> [start |-> st, end |-> et]]
Failed(e) == [ok |-> FALSE, panic |-> FALSE, err |-> e]
Panicked == [ok |-> FALSE, panic |-> TRUE]

\* The locals before the loop
InitScan ==
    [num_of_spaces |-> 0, start_time |-> None, end_time |-> None,
     start_time_space |-> 0, end_time_space |-> 0]

\* `if num_of_spaces == 1 && start_time_space == 0 { ... }` at the space at
\* char index i; ret is Some(e) when the function ends inside.
OnFirstSpace(line, i, st) ==
    IF st.num_of_spaces = 1 /\ st.start_time_space = 0
    THEN IF i < MinStartSpace
         THEN [ret |-> Some(TimeNotFound(StartNotFound)), st |-> st]
         ELSE IF SlicePanics(line, 0, i)
         THEN [ret |-> Some(SlicePanic), st |-> [st EXCEPT !.start_time_space = i]]
         ELSE LET t == NaiveTimeParse(Slice(line, 0, i))
              IN  IF t.ok
                  THEN [ret |-> None,
                        st |-> [st EXCEPT !.start_time_space = i,
                                          !.start_time = Some(t.val)]]
                  ELSE [ret |-> Some(ChronoParseError),
                        st |-> [st EXCEPT !.start_time_space = i]]
    ELSE [ret |-> None, st |-> st]

\* `if num_of_spaces == 2 && end_time_space == 0 { ... }`
OnSecondSpace(line, i, st) ==
    IF st.num_of_spaces = 2 /\ st.end_time_space = 0
    THEN IF i < MinEndSpace
         THEN [ret |-> Some(TimeNotFound(EndNotFound)), st |-> st]
         ELSE IF SlicePanics(line, st.start_time_space, i)
         THEN [ret |-> Some(SlicePanic), st |-> [st EXCEPT !.end_time_space = i]]
         ELSE LET t == NaiveTimeParse(Slice(line, st.start_time_space, i))
              IN  IF t.ok
                  THEN [ret |-> None,
                        st |-> [st EXCEPT !.end_time_space = i,
                                          !.end_time = Some(t.val)]]
                  ELSE [ret |-> Some(ChronoParseError),
                        st |-> [st EXCEPT !.end_time_space = i]]
    ELSE [ret |-> None, st |-> st]

\* The two `if`s on a space, in turn
ThenSecondSpace(line, i, first) ==
    IF first.ret.some THEN first ELSE OnSecondSpace(line, i, first.st)

OnSpace(line, i, st) == ThenSecondSpace(line, i, OnFirstSpace(line, i, st))

\* `for (i, c) in line.chars().enumerate()`, from char index i on
RECURSIVE ScanChars(_, _, _)
\* The end of the loop body on a space: the function ends, the `break`, or on
ScanAfterSpace(line, i, r) ==
    IF r.ret.some \/ r.st.num_of_spaces > 2 \/ i > MaxScanIndex
    THEN r
    ELSE ScanChars(line, i + 1, r.st)

ScanChars(line, i, st) ==
    IF i >= Len(line) THEN [ret |-> None, st |-> st]
    ELSE IF line[i + 1] # Space THEN ScanChars(line, i + 1, st)
    ELSE ScanAfterSpace(line, i,
                        OnSpace(line, i, [st EXCEPT !.num_of_spaces = @ + 1]))

\* FinishScan returning the offset of the first space
FinishScanStartOffset(st) ==
    IF st.num_of_spaces < 2
    THEN Failed(TimeNotFound(NeitherFound))
    ELSE IF ~st.start_time.some
         THEN Failed(TimeNotFound(StartNotFound))
    ELSE IF ~st.end_time.some
         THEN Failed(TimeNotFound(EndNotFound))
    ELSE Found(st.start_time_space, st.start_time.val, st.end_time.val)

\* FinishScan with `num_of_spaces < 1`
FinishScanOneSpace(st) ==
    IF st.num_of_spaces < 1
    THEN Failed(TimeNotFound(NeitherFound))
    ELSE IF ~st.start_time.some
         THEN Failed(TimeNotFound(StartNotFound))
    ELSE IF ~st.end_time.some
         THEN Failed(TimeNotFound(EndNotFound))
    ELSE Found(st.end_time_space, st.start_time.val, st.end_time.val)

\* The code after the loop
FinishScan(st) ==
    IF st.num_of_spaces < 2
    THEN Failed(TimeNotFound(NeitherFound))
    ELSE IF ~st.start_time.some
         THEN Failed(TimeNotFound(StartNotFound))
    ELSE IF ~st.end_time.some
         THEN Failed(TimeNotFound(EndNotFound))
    ELSE Found(st.end_time_space, st.start_time.val, st.end_time.val)

ScanResult(r) ==
    IF ~r.ret.some THEN FinishScan(r.st)
    ELSE IF r.ret.val = SlicePanic THEN Panicked
    ELSE Failed(r.ret.val)

find_duration(line) == ScanResult(ScanChars(line, 0, InitScan))

----------------------------------------------------------------------------
(* parse_time *)

\* The "\r" of a line ending "\r\n" is dropped with the "\n"
StripCR(l) ==
    IF l # <<>> /\ l[Len(l)] = CarriageReturn THEN SubSeq(l, 1, Len(l) - 1) ELSE l

\* The length in chars of text up to its first "\n", or all of it
RECURSIVE LineEnd(_, _)
LineEnd(text, n) ==
    IF n >= Len(text) \/ text[n + 1] = Newline THEN n ELSE LineEnd(text, n + 1)

\* Lines::next on unread text that is not empty: the line, and what is left.
\* A last line without "\n" is taken as it is, a "\r" at its end included.
NextLine(text) ==
    IF LineEnd(text, 0) < Len(text)
    THEN StripCR(SubSeq(text, 1, LineEnd(text, 0)))
    ELSE text
AfterLine(text) == SubSeq(text, LineEnd(text, 0) + 2, Len(text))

\* IsIgnored without the test for a comment
IsIgnoredNoComment(line) ==
    \/ line = <<>>
    \/ ByteLen(line) < MinLineLen

\* The two `continue`s at the top of the loop body
IsIgnored(line) ==
    \/ StartsWith(line, <<Slash, Slash>>)
    \/ line = <<>>
    \/ ByteLen(line) < MinLineLen

\* Description without the trim
DescriptionUntrimmed(line, index) == Slice(line, index, ByteLen(line))

\* `&line[index..line.len()]`, trimmed
Description(line, index) == Trim(Slice(line, index, ByteLen(line)))

EmptyMap == [d \in {} |-> <<>>]

\* PushEntry that only creates the vector of a new key
PushEntryNewKeyEmpty(map, d, entry) ==
    IF d \in DOMAIN map
    THEN [map EXCEPT ![d] = Append(@, entry)]
    ELSE [k \in DOMAIN map \cup {d} |-> IF k = d THEN <<>> ELSE map[k]]

\* PushEntry that puts the entry first
PushEntryFront(map, d, entry) ==
    IF d \in DOMAIN map
    THEN [map EXCEPT ![d] = <<entry>> \o @]
    ELSE [k \in DOMAIN map \cup {d} |-> IF k = d THEN <<entry>> ELSE map[k]]

\* `t.entries.entry(d).or_insert_with(|| vec![])` and the push
PushEntry(map, d, entry) ==
    IF d \in DOMAIN map
    THEN [map EXCEPT ![d] = Append(@, entry)]
    ELSE [k \in DOMAIN map \cup {d} |-> IF k = d THEN <<entry>> ELSE map[k]]

\* `date.and_then(|d| { ... })`
AddEntry(map, curDate, duration, desc) ==
    IF curDate.some
    THEN PushEntry(map, curDate.val,
                   [date |-> curDate.val, start |-> duration.start,
                    end |-> duration.end, description |-> desc])
    ELSE map

\* A date to start with instead of none
InitialDateEpoch == Some([year |-> 1970, month |-> 1, day |-> 1])

\* `let mut date: Option<NaiveDate> = None;`
InitialDate == None

----------------------------------------------------------------------------
(* Display *)

\* impl fmt::Display for TimeEntry
TimeEntryToString(e) ==
    FormatTime(e.start) \o <<Space>> \o FormatTime(e.end) \o <<Space>> \o e.description

RECURSIVE EntriesToString(_)
EntriesToString(es) ==
    IF es = <<>> THEN <<>>
    ELSE TimeEntryToString(Head(es)) \o <<Newline>> \o EntriesToString(Tail(es))

\* impl fmt::Display for Time, the map iterated in the order `order`
RECURSIVE TimeToString(_, _)
TimeToString(map, order) ==
    IF order = <<>> THEN <<>>
    ELSE FormatDate(Head(order)) \o <<Newline>> \o EntriesToString(map[Head(order)])
         \o TimeToString(map, Tail(order))

\* The orders in which a HashMap with these keys may be iterated: any
IterationOrders(keys) ==
    {o \in [1..Cardinality(keys) -> keys] :
        \A i, j \in 1..Cardinality(keys) : i # j => o[i] # o[j]}

----------------------------------------------------------------------------
(* The inputs.  U+00E9 (233) is a letter of two bytes, U+00A0 (160) a       *)
(* whitespace char of two bytes, U+000C (12) the form feed.                 *)

LDate1 == Str(<<"2", "0", "2", "0", "-", "0", "1", "-", "1", "5">>)
LDate2 == Str(<<"2", "0", "2", "0", "-", "0", "1", "-", "1", "6">>)

\* "1822-1-15\r": a date when "\n" follows, none at the end of the text
LDateShortCR == Str(<<"1", "8", "2", "2", "-", "1", "-", "1", "5">>) \o <<CarriageReturn>>

LEntryA == Str(<<"0", "3", ":", "0", "0", " ", "0", "4", ":", "0", "0", " ", "a", "b">>)

\* "15:30 17:30 " and U+00E9
LEntryB == Str(<<"1", "5", ":", "3", "0", " ", "1", "7", ":", "3", "0", " ">>) \o <<233>>

\* "3:00 4:00 ", U+00A0, "x ", U+00E9, U+000C, " "
LEntryLoose == Str(<<"3", ":", "0", "0", " ", "4", ":", "0", "0", " ">>) \o <<160>> \o Str(<<"x", " ">>) \o <<233, 12, 32>>

LComment == Str(<<"/", "/", " ", "1", ":", "0", "0", " ", "2", ":", "0", "0", " ", "z">>)

LBlank == <<>>

\* A date, but 8 chars and 8 bytes
LShortDate == Str(<<"2", "0", "2", "0", "-", "1", "-", "5">>)

\* "abcdefg" and U+00E9: 8 chars, 9 bytes
LShortChars == Str(<<"a", "b", "c", "d", "e", "f", "g">>) \o <<233>>

LBadTime == Str(<<"2", "5", ":", "9", "9", " ", "0", "4", ":", "0", "0", " ", "b", "a", "d">>)

LBadWidth == Str(<<"3", ":", "0", " ", "4", ":", "0", "0", " ", "d", "e", "s", "c">>)

\* Five times U+00E9, then " x": byte 5 is inside the third char
LCutChar == <<233, 233, 233, 233, 233>> \o Str(<<" ", "x">>)

\* Every kind of line: headers, entries, a comment, a blank line, short
\* lines, and lines on which find_duration fails or panics
LinePool ==
    {LDate1, LDateShortCR, LEntryA, LEntryLoose, LComment, LBlank,
     LShortDate, LShortChars, LBadTime, LCutChar}

\* One day's lines: a header, a comment, entries with one-digit and with
\* two-digit hours, and lines on which find_duration fails or panics
DayPool == {LDate1, LComment, LEntryA, LEntryLoose, LBadTime, LBadWidth, LCutChar}

\* Lines in canonical form only: two headers and two entries
BlockPool == {LDate1, LDate2, LEntryA, LEntryB}

MaxLines == 3          \* lines of a text of Spec
MaxBlockLines == 6     \* lines of a text of SpecBlocks
MaxDayLines == 4       \* lines of a text of SpecDay

RECURSIVE JoinLines(_)
JoinLines(ls) ==
    IF ls = <<>> THEN <<>> ELSE Head(ls) \o <<Newline>> \o JoinLines(Tail(ls))

LineSeqs(pool, n) == UNION {[1..k -> pool] : k \in 0..n}

\* Texts of at most n lines of the pool, each line ended by "\n"
Texts(pool, n) == {JoinLines(ls) : ls \in LineSeqs(pool, n)}

\* The same texts without the last "\n"
Unterminated(texts) == {SubSeq(t, 1, Len(t) - 1) : t \in texts \ {<<>>}}

----------------------------------------------------------------------------
(* parse_time and Display as a state machine: one step per line *)

NoResult == [kind |-> "None"]
Ok(map) == [kind |-> "Ok", time |-> map]
Err(e) == [kind |-> "Err", err |-> e]

InitParse(texts) ==
    /\ contents \in texts
    /\ rest = contents
    /\ pc = "loop"
    /\ pos = 0
    /\ date = InitialDate
    /\ entries = EmptyMap
    /\ result = NoResult
    /\ output = <<>>
    /\ fdLine = <<>>
    /\ fdResult = None

\* The `?` with every later line processed all the same
PropagateLater(e) ==
    /\ result' = Err(e)
    /\ UNCHANGED <<pc, date, entries>>

\* The `?` of `find_duration(line)?`: return Err(Box::from(err))
Propagate(e) ==
    /\ pc' = "done"
    /\ result' = Err(e)
    /\ UNCHANGED <<date, entries>>

\* A panic unwinds out of parse_time: nothing is returned
Unwind ==
    /\ pc' = "panicked"
    /\ UNCHANGED <<date, entries, result>>

\* One turn of `for line in contents.lines()`
ProcessLine ==
    /\ pc = "loop"
    /\ rest # <<>>
    /\ rest' = AfterLine(rest)
    /\ pos' = pos + 1
    /\ LET line == NextLine(rest)
           d    == NaiveDateParse(line)
           r    == find_duration(line)
       IN  IF IsIgnored(line)
           THEN UNCHANGED <<pc, date, entries, result>>
           ELSE IF d.some
           THEN date' = d /\ UNCHANGED <<pc, entries, result>>
           ELSE IF ~r.ok
           THEN (IF r.panic THEN Unwind ELSE Propagate(r.err))
           ELSE IF SlicePanics(line, r.index, ByteLen(line))
           THEN Unwind
           ELSE /\ entries' = AddEntry(entries, date, r.duration,
                                       Description(line, r.index))
                /\ UNCHANGED <<pc, date, result>>
    /\ UNCHANGED <<contents, output, fdLine, fdResult>>

\* `Ok(t)` after the last line
ReturnOk ==
    /\ pc = "loop"
    /\ rest = <<>>
    /\ pc' = "done"
    /\ result' = Ok(entries)
    /\ UNCHANGED <<contents, rest, pos, date, entries, output, fdLine, fdResult>>

\* format!("{}", t) on the Time that parse_time returned
Display ==
    /\ pc = "done"
    /\ result.kind = "Ok"
    /\ \E order \in IterationOrders(DOMAIN result.time) :
           output' = TimeToString(result.time, order)
    /\ pc' = "displayed"
    /\ UNCHANGED <<contents, rest, pos, date, entries, result, fdLine, fdResult>>

Next == ProcessLine \/ ReturnOk \/ Display

Init == InitParse(Texts(LinePool, MaxLines) \cup Unterminated(Texts(LinePool, MaxLines)))

Spec == Init /\ [][Next]_vars

\* Texts of date blocks: a header first, at most n lines
BlockTexts(n) ==
    {JoinLines(<<h>> \o ls) : h \in {LDate1, LDate2}, ls \in LineSeqs(BlockPool, n - 1)}

InitBlocks == InitParse(BlockTexts(MaxBlockLines))

SpecBlocks == InitBlocks /\ [][Next]_vars

InitDay == InitParse(Texts(DayPool, MaxDayLines))

SpecDay == InitDay /\ [][Next]_vars

----------------------------------------------------------------------------
(* find_duration called on its own, on lines `token sep token sep desc` *)

Hours == {Str(<<"3">>), Str(<<"0", "3">>), Str(<<"2", "3">>), Str(<<"2", "4">>)}
Minutes == {Str(<<"0", "0">>), Str(<<"5", "9">>), Str(<<"6", "0">>), Str(<<"5">>)}

\* "", "ab", "3:00x", a tab and "3:00", twelve chars, and with chars of two
\* bytes: U+00A0 and "3:05", five times U+00E9, twice U+00E9 and ":00"
OddTokens ==
    {<<>>, Str(<<"a", "b">>), Str(<<"3", ":", "0", "0", "x">>), Str(<<"\t", "3", ":", "0", "0">>), Str(<<"1", "2", "3", "4", "5", "6", "7", "8", "9", "0", "a", "b">>),
     <<160>> \o Str(<<"3", ":", "0", "5">>), <<233, 233, 233, 233, 233>>, <<233, 233>> \o Str(<<":", "0", "0">>)}

Tokens == {h \o <<Colon>> \o m : h \in Hours, m \in Minutes} \cup OddTokens

Separators == {<<Space>>, <<>>}

MaxDescLen == 2        \* characters of a description of SpecFD

Descriptions == UNION {[1..k -> {Space, Chr("x")}] : k \in 0..MaxDescLen}

DurationLines ==
    {t1 \o s1 \o t2 \o s2 \o d :
        t1 \in Tokens, s1 \in Separators, t2 \in Tokens, s2 \in Separators,
        d \in Descriptions}

InitFD ==
    /\ fdLine \in DurationLines
    /\ fdResult = None
    /\ pc = "call"
    /\ contents = <<>>
    /\ rest = <<>>
    /\ pos = 0
    /\ date = InitialDate
    /\ entries = EmptyMap
    /\ result = NoResult
    /\ output = <<>>

CallFindDuration ==
    /\ pc = "call"
    /\ fdResult' = Some(find_duration(fdLine))
    /\ pc' = "returned"
    /\ UNCHANGED <<contents, rest, pos, date, entries, result, output, fdLine>>

NextFD == CallFindDuration

SpecFD == InitFD /\ [][NextFD]_vars

----------------------------------------------------------------------------
(* What the claims speak of, said without the parser *)

SpaceIndices(line) == {i \in 0..(Len(line) - 1) : line[i + 1] = Space}
NumSpaces(line) == Cardinality(SpaceIndices(line))
Least(S) == CHOOSE m \in S : \A n \in S : m <= n
FirstSpace(line) == Least(SpaceIndices(line))
SecondSpace(line) == Least(SpaceIndices(line) \ {FirstSpace(line)})

\* The chars of line from char index `from` up to char index `to`
CharsOf(line, from, to) == SubSeq(line, from + 1, to)

\* H:MM or HH:MM, 0:00 to 23:59
TokenHour(tok) ==
    IF Len(tok) = 4 THEN DigitVal(tok[1]) ELSE 10 * DigitVal(tok[1]) + DigitVal(tok[2])
TokenMinute(tok) == 10 * DigitVal(tok[Len(tok) - 1]) + DigitVal(tok[Len(tok)])
IsTimeToken(tok) ==
    /\ Len(tok) \in {4, 5}
    /\ tok[Len(tok) - 2] = Colon
    /\ \A k \in 1..Len(tok) : k # Len(tok) - 2 => IsDigit(tok[k])
    /\ TokenHour(tok) <= 23
    /\ TokenMinute(tok) <= 59
TokenTime(tok) == [hour |-> TokenHour(tok), minute |-> TokenMinute(tok)]

StartToken(line) == CharsOf(line, 0, FirstSpace(line))
EndToken(line) == CharsOf(line, FirstSpace(line) + 1, SecondSpace(line))

\* `H:MM H:MM desc` or `HH:MM HH:MM desc`
IsValidEntryLine(line) ==
    /\ NumSpaces(line) >= 2
    /\ IsTimeToken(StartToken(line))
    /\ IsTimeToken(EndToken(line))

\* The numbers of chars at the start of line that make b bytes: one number,
\* or none when byte b is inside a char
PrefixesOfBytes(line, b) == {k \in 0..Len(line) : ByteLen(SubSeq(line, 1, k)) = b}

\* What the first space of a line decides, e being the error of a line
\* whose start time is in order
AfterFirstSpace(line, e) ==
    IF FirstSpace(line) < 4 THEN Failed(TimeNotFound(StartNotFound))
    ELSE IF PrefixesOfBytes(line, FirstSpace(line)) = {} THEN Panicked
    ELSE IF NaiveTimeParse(SubSeq(line, 1, Least(PrefixesOfBytes(line, FirstSpace(line))))).ok
    THEN Failed(e)
    ELSE Failed(ChronoParseError)

----------------------------------------------------------------------------
(* find_duration: C5, C6, C7 (under SpecFD) *)

Returned == pc = "returned"
FdOk == fdResult.val.ok

\* C5: on every valid entry line `H:MM H:MM desc` / `HH:MM HH:MM desc`
\* find_duration succeeds, the times it returns are those of the first and
\* of the second token, and the offset it returns is the index of the second
\* space of the line.
C5_ValidLineExtracted ==
    (Returned /\ IsValidEntryLine(fdLine)) =>
        /\ FdOk
        /\ fdResult.val.duration.start = TokenTime(StartToken(fdLine))
        /\ fdResult.val.duration.end = TokenTime(EndToken(fdLine))
        /\ fdResult.val.index = SecondSpace(fdLine)

\* A valid line with a one-digit and a two-digit hour and a description
C5_Witness ==
    /\ Returned
    /\ IsValidEntryLine(fdLine)
    /\ FdOk
    /\ FirstSpace(fdLine) = 4
    /\ fdResult.val.index = 10
    /\ Len(fdLine) > 11

\* C6 as claimed: on every line with fewer than two spaces find_duration
\* fails with the "neither found" TimeNotFound error.
C6_Original ==
    (Returned /\ NumSpaces(fdLine) < 2) =>
        fdResult.val = Failed(TimeNotFound(NeitherFound))

\* C6 amended: on no line with fewer than two spaces find_duration succeeds.
\* It fails with "neither found" when the line has no space, or when its one
\* space is at char index i >= 4 and the first i bytes of the line parse as a
\* time; with "start time not found" when its one space is before index 4;
\* with chrono's parse error when i >= 4 and the first i bytes are no time;
\* and it panics when i >= 4 and byte i of the line is inside a char.
C6_FewerThanTwoSpaces ==
    (Returned /\ NumSpaces(fdLine) < 2) =>
        /\ ~FdOk
        /\ NumSpaces(fdLine) = 0 => fdResult.val = Failed(TimeNotFound(NeitherFound))
        /\ NumSpaces(fdLine) = 1 =>
               fdResult.val = AfterFirstSpace(fdLine, TimeNotFound(NeitherFound))

\* One space, after a start time: "neither found"
C6_Witness ==
    /\ Returned
    /\ NumSpaces(fdLine) = 1
    /\ IsTimeToken(StartToken(fdLine))
    /\ fdResult.val = Failed(TimeNotFound(NeitherFound))

\* C7 as claimed: on every line whose second space is before index 9
\* find_duration fails with the "end time not found" TimeNotFound error.
C7_Original ==
    (Returned /\ NumSpaces(fdLine) >= 2 /\ SecondSpace(fdLine) < 9) =>
        fdResult.val = Failed(TimeNotFound(EndNotFound))

\* C7 amended: on no line whose second space is before char index 9
\* find_duration succeeds.  With the first space at char index i, it fails
\* with "end time not found" when i >= 4 and the first i bytes of the line
\* parse as a time; with "start time not found" when i < 4; with chrono's
\* parse error when i >= 4 and the first i bytes are no time; and it panics
\* when i >= 4 and byte i of the line is inside a char.
C7_SecondSpaceEarly ==
    (Returned /\ NumSpaces(fdLine) >= 2 /\ SecondSpace(fdLine) < 9) =>
        /\ ~FdOk
        /\ fdResult.val = AfterFirstSpace(fdLine, TimeNotFound(EndNotFound))

\* A start time, then a second token that ends at index 8
C7_Witness ==
    /\ Returned
    /\ NumSpaces(fdLine) >= 2
    /\ IsTimeToken(StartToken(fdLine))
    /\ SecondSpace(fdLine) = 8
    /\ fdResult.val = Failed(TimeNotFound(EndNotFound))

----------------------------------------------------------------------------
(* The lines of a text and their kinds *)

RECURSIVE Lines(_)
Lines(text) ==
    IF text = <<>> THEN <<>> ELSE <<NextLine(text)>> \o Lines(AfterLine(text))

IsCommentLine(l) == Len(l) >= 2 /\ l[1] = Slash /\ l[2] = Slash

\* A comment, a blank line or a line of fewer than 9 chars
IsShortInChars(l) == IsCommentLine(l) \/ l = <<>> \/ Len(l) < 9

\* A comment, a blank line or a line of fewer than 9 bytes
IsSkippable(l) == IsCommentLine(l) \/ l = <<>> \/ ByteLen(l) < 9

\* A line that sets the current date
IsHeaderLine(l) == ~IsSkippable(l) /\ NaiveDateParse(l).some

\* A line of length >= 9 that is no comment and no valid date
IsEntryLine(l) == ~IsSkippable(l) /\ ~NaiveDateParse(l).some

\* YYYY-MM-DD, a date of the calendar
IsCanonicalDateLine(l) ==
    /\ Len(l) = 10
    /\ \A k \in 1..10 : IF k \in {5, 8} THEN l[k] = Hyphen ELSE IsDigit(l[k])
    /\ NaiveDateParse(l).some

\* The entry lines of L on which find_duration does not succeed
FailingLines(L) == {i \in 1..Len(L) : IsEntryLine(L[i]) /\ ~find_duration(L[i]).ok}

\* The date in force at each line from line i on, `cur` being in force at
\* line i: the date of the last header line before the line, if any
RECURSIVE DatesInForce(_, _, _)
DatesInForce(L, i, cur) ==
    IF i > Len(L) THEN <<>>
    ELSE <<cur>> \o DatesInForce(L, i + 1, IF IsHeaderLine(L[i])
                                            THEN NaiveDateParse(L[i])
                                            ELSE cur)

HeadersAt(L) == DatesInForce(L, 1, None)

RECURSIVE Ascending(_)
Ascending(S) == IF S = {} THEN <<>> ELSE <<Least(S)>> \o Ascending(S \ {Least(S)})

\* The text of a valid entry line after its second space, trimmed
DescriptionOf(line) == Trim(CharsOf(line, SecondSpace(line) + 1, Len(line)))

\* The entry a valid entry line stands for under date d
ExpectedEntry(line, d) ==
    [date |-> d, start |-> TokenTime(StartToken(line)),
     end |-> TokenTime(EndToken(line)), description |-> DescriptionOf(line)]

\* The indices of the entry lines of L whose date in force is d, ascending
LinesUnder(d, L) ==
    LET F == HeadersAt(L)
    IN  Ascending({i \in 1..Len(L) : F[i] = Some(d) /\ IsEntryLine(L[i])})

\* The entries of the entry lines of L whose date in force is d, in order
ExpectedUnder(d, L) ==
    LET idx == LinesUnder(d, L)
    IN  [k \in 1..Len(idx) |-> ExpectedEntry(L[idx[k]], d)]

AllEntryLinesValid(L) == \A i \in 1..Len(L) : IsEntryLine(L[i]) => IsValidEntryLine(L[i])

RECURSIVE TotalEntries(_)
TotalEntries(map) ==
    IF DOMAIN map = {} THEN 0
    ELSE LET d == CHOOSE k \in DOMAIN map : TRUE
         IN  Len(map[d]) + TotalEntries([k \in DOMAIN map \ {d} |-> map[k]])

----------------------------------------------------------------------------
(* C2, C3 (under SpecDay) *)

\* C2: if find_duration fails on an entry line (9 bytes or more, no comment,
\* no valid date), parse_time returns that error and no Time, whatever
\* precedes and follows the line: the loop never goes past the first line on
\* which find_duration does not succeed, and what was collected is not
\* returned.  When find_duration panics on that line, parse_time returns
\* nothing at all.
C2_FirstErrorAborts ==
    LET L == Lines(contents)
        F == FailingLines(L)
    IN  F # {} =>
            /\ pos <= Least(F)
            /\ (pc # "loop" /\ ~find_duration(L[Least(F)]).panic) =>
                   /\ pc = "done"
                   /\ pos = Least(F)
                   /\ result = Err(find_duration(L[pos]).err)
                   /\ DOMAIN result = {"kind", "err"}
            /\ (pc # "loop" /\ find_duration(L[Least(F)]).panic) =>
                   /\ pc = "panicked"
                   /\ pos = Least(F)
                   /\ result = NoResult

\* An error after a date and an entry were read, with a line left unread
C2_Witness ==
    /\ result.kind = "Err"
    /\ date.some
    /\ entries # EmptyMap
    /\ rest # <<>>

\* H:MM as HH:MM
PadToken(tok) == IF Len(tok) = 4 THEN <<Zero>> \o tok ELSE tok

\* One date header, then valid entry lines and comment lines, at least one
\* entry line
IsDayText(L) ==
    /\ Len(L) >= 2
    /\ IsCanonicalDateLine(L[1])
    /\ \A i \in 2..Len(L) : IsCommentLine(L[i]) \/ IsValidEntryLine(L[i])
    /\ \E i \in 2..Len(L) : ~IsCommentLine(L[i])

RECURSIVE ExpectedEntryLines(_, _)
ExpectedEntryLines(L, i) ==
    IF i > Len(L) THEN <<>>
    ELSE (IF IsCommentLine(L[i]) THEN <<>>
          ELSE PadToken(StartToken(L[i])) \o <<Space>> \o PadToken(EndToken(L[i]))
               \o <<Space>> \o DescriptionOf(L[i]) \o <<Newline>>)
         \o ExpectedEntryLines(L, i + 1)

\* C3: for a text of one date header followed by valid entry lines (hours of
\* one or two digits) and comment lines, parse_time succeeds and the
\* rendering is the date line, then one line per entry in source order,
\* `HH:MM HH:MM description` with the times zero-padded and the description
\* trimmed, and no comment line.
C3_DayRendered ==
    LET L == Lines(contents)
    IN  (pc # "loop" /\ IsDayText(L)) =>
            /\ result.kind = "Ok"
            /\ pc = "displayed" =>
                   output = L[1] \o <<Newline>> \o ExpectedEntryLines(L, 2)

\* A header, a comment, an entry with one-digit hours and whitespace around
\* its description, then an entry with two-digit hours
C3_Witness ==
    /\ pc = "displayed"
    /\ IsDayText(Lines(contents))
    /\ Len(Lines(contents)) = 4
    /\ IsCommentLine(Lines(contents)[2])
    /\ FirstSpace(Lines(contents)[3]) = 4
    /\ FirstSpace(Lines(contents)[4]) = 5

----------------------------------------------------------------------------
(* C8, C9, C10 (under Spec) *)

\* The index of the first header line of L, Len(L) + 1 when it has none
FirstHeader(L) == Least({i \in 1..Len(L) : IsHeaderLine(L[i])} \cup {Len(L) + 1})

\* C8: entry lines before the first date header never cause an error by
\* lacking a date and are never stored: nothing is stored before the first
\* header is read, the log holds one entry per entry line read after it, the
\* parse succeeds when find_duration succeeds on every entry line, and the
\* log returned is that of the text from its first header on.
C8_EntriesBeforeHeaderDropped ==
    LET L == Lines(contents)
        h == FirstHeader(L)
    IN  /\ pos <= h => entries = EmptyMap
        /\ TotalEntries(entries) =
               Cardinality({i \in 1..pos : i > h /\ IsEntryLine(L[i])
                                            /\ find_duration(L[i]).ok})
        /\ (pc # "loop" /\ FailingLines(L) = {}) => result.kind = "Ok"
        /\ (result.kind = "Ok" /\ AllEntryLinesValid(L)) =>
               \A d \in DOMAIN result.time :
                   result.time[d] = ExpectedUnder(d, SubSeq(L, h, Len(L)))

\* A text that starts with a valid entry line and has entries under a later
\* header
C8_Witness ==
    /\ result.kind = "Ok"
    /\ contents # <<>>
    /\ IsValidEntryLine(Lines(contents)[1])
    /\ IsEntryLine(Lines(contents)[1])
    /\ result.time # EmptyMap

\* C9: processing a comment line, a blank line or a line of fewer than 9
\* characters leaves the log, the current date and the outcome of the parse
\* as they were, whatever the line holds.  The code does not do this:
\* `line.len() < 9` (lib.rs:112) counts bytes, so a line of fewer than 9
\* chars and 9 or more bytes is not skipped.
C9_Original ==
    [][(pc = "loop" /\ rest # <<>> /\ IsShortInChars(Lines(contents)[pos + 1])) =>
           (entries' = entries /\ date' = date /\ result' = result /\ pc' = "loop")]_vars

\* What the code does skip (C9 with bytes for characters): processing a
\* comment line, a blank line or a line of fewer than 9 bytes leaves the log,
\* the current date and the outcome of the parse as they were, whatever the
\* line holds.
C9_SkippedLinesChangeNothing ==
    [][(pc = "loop" /\ rest # <<>> /\ IsSkippable(Lines(contents)[pos + 1])) =>
           (entries' = entries /\ date' = date /\ result' = result /\ pc' = "loop")]_vars

\* A comment that holds an entry's text was passed, after an entry was
\* stored
C9_Witness ==
    /\ pc = "loop"
    /\ pos = 3
    /\ IsCommentLine(Lines(contents)[3])
    /\ NumSpaces(Lines(contents)[3]) >= 2
    /\ entries # EmptyMap
    /\ result = NoResult

\* A line of fewer than 9 chars and 9 bytes was read after an entry was
\* stored, and parse_time returned find_duration's error on it
C9_ShortLineNotSkipped ==
    /\ pc = "done"
    /\ pos = 3
    /\ Len(Lines(contents)[3]) < 9
    /\ ~IsCommentLine(Lines(contents)[3])
    /\ entries # EmptyMap
    /\ result = Err(TimeNotFound(NeitherFound))

WellFormedMap(map) ==
    \A d \in DOMAIN map :
        /\ map[d] # <<>>
        /\ \A k \in 1..Len(map[d]) : map[d][k].date = d

\* The dates under which one of the first n lines of L was stored
DatesWithEntries(L, n) ==
    LET F == HeadersAt(L)
    IN  {F[i].val : i \in {j \in 1..n : /\ F[j].some
                                        /\ IsEntryLine(L[j])
                                        /\ find_duration(L[j]).ok}}

RangeOf(seq) == {seq[k] : k \in 1..Len(seq)}

\* C10: after every line, and in the Time returned, every key of the log has
\* a non-empty entry list whose entries carry the key as their date, and the
\* keys are the dates under which an entry was stored: a header followed by
\* no stored entry makes no key, and the rendering has no line for it.
C10_KeysHaveEntries ==
    LET L == Lines(contents)
    IN  /\ WellFormedMap(entries)
        /\ DOMAIN entries = DatesWithEntries(L, pos)
        /\ result.kind = "Ok" =>
               (WellFormedMap(result.time) /\ result.time = entries)
        /\ pc = "displayed" =>
               {l \in RangeOf(Lines(output)) : NaiveDateParse(l).some}
                   = {FormatDate(d) : d \in DOMAIN result.time}

\* Two headers read and rendered, entries under one of them only
C10_Witness ==
    /\ pc = "displayed"
    /\ result.time # EmptyMap
    /\ \E i \in 1..Len(Lines(contents)) :
           /\ IsHeaderLine(Lines(contents)[i])
           /\ NaiveDateParse(Lines(contents)[i]).val \notin DOMAIN result.time

----------------------------------------------------------------------------
(* C1, C4 (under SpecBlocks) *)

\* C4: after a successful parse_time the entry list stored under a date d is
\* exactly the sequence of the valid entry lines whose last preceding header
\* is d, in source order, also when d's header occurs more than once or
\* blocks of other dates lie in between; and the dates of the log are those
\* with such a line.
C4_EntriesInSourceOrder ==
    LET L == Lines(contents)
        F == HeadersAt(L)
    IN  (result.kind = "Ok" /\ AllEntryLinesValid(L)) =>
            /\ \A d \in DOMAIN result.time : result.time[d] = ExpectedUnder(d, L)
            /\ \A i \in 1..Len(L) :
                   (F[i].some /\ IsEntryLine(L[i])) => F[i].val \in DOMAIN result.time

\* d's header, an entry, another date's header, an entry, d's header again,
\* a different entry: two entries under d, one under the other date
C4_Witness ==
    LET L == Lines(contents)
    IN  /\ result.kind = "Ok"
        /\ Len(L) = 6
        /\ IsHeaderLine(L[1]) /\ IsHeaderLine(L[3]) /\ IsHeaderLine(L[5])
        /\ L[1] = L[5] /\ L[1] # L[3]
        /\ IsEntryLine(L[2]) /\ IsEntryLine(L[4]) /\ IsEntryLine(L[6])
        /\ L[2] # L[6]
        /\ Len(result.time[NaiveDateParse(L[1]).val]) = 2

\* HH:MM HH:MM desc, the description not empty and with no whitespace around
\* it
IsCanonicalEntryLine(l) ==
    /\ IsValidEntryLine(l)
    /\ FirstSpace(l) = 5
    /\ SecondSpace(l) = 11
    /\ Len(l) >= 13
    /\ ~IsWhitespace(l[13])
    /\ ~IsWhitespace(l[Len(l)])

\* Canonical form: date blocks, each a `YYYY-MM-DD` line followed by one or
\* more `HH:MM HH:MM desc` lines, no date twice, every line ended by "\n"
IsCanonicalText(text) ==
    LET L == Lines(text)
    IN  /\ text # <<>>
        /\ text = JoinLines(L)
        /\ IsCanonicalDateLine(L[1])
        /\ \A i \in 1..Len(L) :
               \/ IsCanonicalEntryLine(L[i])
               \/ /\ IsCanonicalDateLine(L[i])
                  /\ i < Len(L)
                  /\ IsCanonicalEntryLine(L[i + 1])
                  /\ \A j \in 1..Len(L) : L[j] = L[i] => j = i

\* The date blocks of a canonical text, as texts, in source order
HeaderIndices(L) == Ascending({i \in 1..Len(L) : IsCanonicalDateLine(L[i])})
BlockEnd(L, k) ==
    IF k = Len(HeaderIndices(L)) THEN Len(L) ELSE HeaderIndices(L)[k + 1] - 1
Blocks(L) ==
    [k \in 1..Len(HeaderIndices(L)) |->
        JoinLines(SubSeq(L, HeaderIndices(L)[k], BlockEnd(L, k)))]

RECURSIVE Concat(_)
Concat(seqs) == IF seqs = <<>> THEN <<>> ELSE Head(seqs) \o Concat(Tail(seqs))

IndexOrders(n) == {p \in [1..n -> 1..n] : \A i, j \in 1..n : i # j => p[i] # p[j]}

\* The texts made of the same blocks in any order
BlockOrders(blocks) ==
    {Concat([k \in 1..Len(blocks) |-> blocks[p[k]]]) : p \in IndexOrders(Len(blocks))}

\* C1 as claimed: rendering the Time parsed from a text in canonical form,
\* with any number of date blocks, reproduces the text byte for byte.
C1_Original ==
    (pc = "displayed" /\ IsCanonicalText(contents)) => output = contents

\* C1 amended: rendering the Time parsed from a text in canonical form
\* reproduces its date blocks byte for byte, in the order in which the map
\* is iterated; with one date block the rendering is the text, byte for
\* byte.
C1_RoundTripBlocks ==
    (pc = "displayed" /\ IsCanonicalText(contents)) =>
        /\ output \in BlockOrders(Blocks(Lines(contents)))
        /\ Len(Blocks(Lines(contents))) = 1 => output = contents

\* Two date blocks of five lines, rendered in the other order
C1_Witness ==
    /\ pc = "displayed"
    /\ IsCanonicalText(contents)
    /\ Len(Blocks(Lines(contents))) = 2
    /\ Len(Lines(contents)) = 5
    /\ output # contents

====
